---------------------------- MODULE Spec2Model ----------------------------
(***************************************************************************)
(* SmartSplit: seam detection (detectSplitPoints) and slicing (sliceImage)  *)
(* of src/utils/imageHelper.ts as state machines, and the handlers of the   *)
(* App and Workspace components that call them.                             *)
(*                                                                          *)
(* JavaScript numbers are modelled as exact fractions [n, d] (d > 0), with  *)
(* d = 0 for the non-finite values: [n |-> 0, d |-> 0] is NaN and           *)
(* [n |-> 1, d |-> 0] is Infinity.  JavaScript arrays are sequences, so the *)
(* JavaScript element a[k] is the sequence element a[k + 1].                *)
(***************************************************************************)
EXTENDS Integers, Sequences, FiniteSets, TLC

VARIABLES
    img,            \* the HTMLImageElement: [width, height, rows]
    settings,       \* AppSettings: [sensitivity, fastMode, minSegmentHeight]; a field
                    \* is drawn where detectSplitPoints first reads it
    pc,             \* position inside detectSplitPoints
    data,           \* imageData.data of the analysis canvas, one colour per row
    rowScores,      \* rowScores of detectSplitPoints
    threshold,      \* threshold of detectSplitPoints
    minDist,        \* minDist of detectSplitPoints
    y,              \* the scan cursor of the loop of line 94
    lastCutY,       \* lastCutY of detectSplitPoints
    foundPoints,    \* foundPoints of detectSplitPoints
    acceptedYs,     \* history: the scan positions y at which a cut was pushed
    splitPoints,    \* sliceImage's argument splitPoints
    gap,            \* sliceImage's argument gap
    spc,            \* position inside sliceImage
    sortedPoints,   \* sortedPoints of sliceImage
    i,              \* loop index of sliceImage
    currentY,       \* currentY of sliceImage
    segments,       \* segments of sliceImage; a blob is the row range drawn into it
    canvasFailed,   \* history: getContext or toBlob has returned null
    images,         \* App's state images: a sequence of ProcessedImage
    tasks           \* the calls of runDetection and handleConfirmSplits in flight

detectVars == <<pc, data, rowScores, threshold, minDist, y, lastCutY, foundPoints, acceptedYs>>
sliceVars == <<splitPoints, gap, spc, sortedPoints, i, currentY, segments, canvasFailed>>
appVars == <<images, tasks>>
vars == <<img, settings, detectVars, sliceVars, appVars>>

---------------------------------------------------------------------------
(* Bounds of the model *)

MaxHeight == 16
MaxWidth == 1
MaxMinSegmentHeight == 2
MaxSliceHeight == 6
MaxCuts == 2
MaxGap == 3

---------------------------------------------------------------------------
(* JavaScript numbers *)

RECURSIVE GCD(_, _)
GCD(a, b) == IF b = 0 THEN a ELSE GCD(b, a % b)

Abs(a) == IF a < 0 THEN -a ELSE a

NaN == [n |-> 0, d |-> 0]
Infinity == [n |-> 1, d |-> 0]
IsFinite(a) == a.d > 0

Rat(n, d) ==
    LET g == GCD(Abs(n), d)
    IN  IF g = 0 THEN NaN ELSE [n |-> n \div g, d |-> d \div g]

Num(k) == [n |-> k, d |-> 1]

(* a / b for a, b >= 0 *)
Div(a, b) ==
    IF ~IsFinite(a) \/ ~IsFinite(b) THEN NaN
    ELSE IF b.n = 0 THEN (IF a.n = 0 THEN NaN ELSE Infinity)
    ELSE Rat(a.n * b.d, a.d * b.n)

Mul(a, b) ==
    IF ~IsFinite(a) \/ ~IsFinite(b) THEN NaN ELSE Rat(a.n * b.n, a.d * b.d)

Add(a, b) ==
    IF ~IsFinite(a) \/ ~IsFinite(b) THEN NaN
    ELSE Rat(a.n * b.d + b.n * a.d, a.d * b.d)

(* a > b; every comparison with NaN is false *)
GT(a, b) ==
    IF a = NaN \/ b = NaN THEN FALSE
    ELSE IF a = Infinity THEN b # Infinity
    ELSE IF b = Infinity THEN FALSE
    ELSE a.n * b.d > b.n * a.d

Sub(a, b) ==
    IF ~IsFinite(a) \/ ~IsFinite(b) THEN NaN
    ELSE Rat(a.n * b.d - b.n * a.d, a.d * b.d)

(* Math.floor *)
Floor(a) == IF IsFinite(a) THEN Num(a.n \div a.d) ELSE a

---------------------------------------------------------------------------
(* Images: stacks of uniformly coloured panels.  Row r (counted from 0)     *)
(* has the colour of its panel; a seam is a row that starts a new panel.    *)

Palette == << <<0, 0, 0>>, <<255, 255, 255>>, <<128, 128, 128>> >>

PanelColour(k) == Palette[(k % 3) + 1]

PanelImage(w, h, seams, first) ==
    [width |-> w, height |-> h,
     rows |-> [r \in 1..h |->
                  PanelColour(first + Cardinality({s \in seams : s <= r - 1}))]]

(* a 100 x 300 image, black but for a white band at rows 100..104 *)
BandImage ==
    [width |-> 100, height |-> 300,
     rows |-> [r \in 1..300 |-> IF r - 1 \in 100..104 THEN Palette[2] ELSE Palette[1]]]

(* a 4000 x 120 image, black above row 50 and white from row 50 on *)
WideImage ==
    [width |-> 4000, height |-> 120,
     rows |-> [r \in 1..120 |-> IF r - 1 < 50 THEN Palette[1] ELSE Palette[2]]]

IsUniform(image) == \A r \in 1..image.height : image.rows[r] = image.rows[1]

---------------------------------------------------------------------------
(* detectSplitPoints *)

FastWidth == 200
xStep == 2
SkipRows == 10
Sensitivities == {1, 50, 100}
MinSegmentHeights == (1..MaxMinSegmentHeight) \cup {10, 20}

analyzeWidth == IF settings.fastMode THEN FastWidth ELSE img.width

scaleFactor == Div(Num(img.width), Num(analyzeWidth))

analyzeHeight == Floor(Div(Num(img.height), scaleFactor))

(* ctx.drawImage(img, 0, 0, analyzeWidth, analyzeHeight): analysis row j    *)
(* is resampled from the source rows lo..hi it covers, by the nearest row   *)
(* or by the average of the covered rows.                                   *)
ResampleFilters == {"nearest", "box"}

RECURSIVE SumChannel(_, _, _, _)
SumChannel(rows, lo, hi, c) ==
    IF lo > hi THEN 0 ELSE rows[lo + 1][c] + SumChannel(rows, lo + 1, hi, c)

drawImage(image, aw, ah, filter) ==
    [r \in 1..ah |->
        LET j == r - 1
            lo == (j * image.width) \div aw
            hi == ((j + 1) * image.width + aw - 1) \div aw - 1
            mid == ((2 * j + 1) * image.width) \div (2 * aw)
        IN  IF filter = "nearest" THEN image.rows[mid + 1]
            ELSE [c \in 1..3 |-> SumChannel(image.rows, lo, hi, c) \div (hi - lo + 1)]]

(* ctx.getImageData(0, 0, sw, sh) throws for a zero or non-finite extent *)
getImageDataThrows(sw, sh) ==
    \/ ~IsFinite(sw) \/ ~IsFinite(sh)
    \/ sw.n = 0 \/ sh.n = 0

(* data[k] of the RGBA buffer of an aw-wide canvas *)
dataAt(d, aw, k) ==
    LET p == k \div 4
        c == k % 4
    IN  IF c = 3 THEN 255 ELSE d[(p \div aw) + 1][c + 1]

(* |dR| + |dG| + |dB| between pixel (x, yy) and pixel (x, yy - 1), lines 60-68 *)
pixelDiff(d, aw, yy, x) ==
    LET k == (yy * aw + x) * 4
        prevI == ((yy - 1) * aw + x) * 4
        rDiff == Abs(dataAt(d, aw, k) - dataAt(d, aw, prevI))
        gDiff == Abs(dataAt(d, aw, k + 1) - dataAt(d, aw, prevI + 1))
        bDiff == Abs(dataAt(d, aw, k + 2) - dataAt(d, aw, prevI + 2))
    IN  rDiff + gDiff + bDiff

(* the sum of pixelDiff over the iterations lo..hi of the loop of line 59,  *)
(* iteration k visiting x = k * xStep                                       *)
RECURSIVE sumIterations(_, _, _, _, _)
sumIterations(d, aw, yy, lo, hi) ==
    IF lo > hi THEN 0
    ELSE IF lo = hi THEN pixelDiff(d, aw, yy, lo * xStep)
    ELSE LET mid == (lo + hi) \div 2
         IN  sumIterations(d, aw, yy, lo, mid) + sumIterations(d, aw, yy, mid + 1, hi)

(* rowDiffSum after the loop for (x = 0; x < aw; x += xStep) *)
rowDiffSum(d, aw, yy) == sumIterations(d, aw, yy, 0, (aw + xStep - 1) \div xStep - 1)

(* lines 53-73: one score per analysis row 1 .. ah - 1, pushed in order *)
computeRowScores(d, aw, ah) ==
    [k \in 1..(ah - 1) |-> Div(Num(rowDiffSum(d, aw, k)), Div(Num(aw), Num(xStep)))]

(* rowScores[yy] is the difference between analysis row yy + 1 and the row  *)
(* above it: the first score pushed belongs to row 1                        *)
ScoredRow(yy) == yy + 1

(* the sum of scores[lo .. hi] *)
RECURSIVE SumScores(_, _, _)
SumScores(scores, lo, hi) ==
    IF lo > hi THEN Num(0)
    ELSE IF lo = hi THEN scores[lo]
    ELSE LET mid == (lo + hi) \div 2
         IN  Add(SumScores(scores, lo, mid), SumScores(scores, mid + 1, hi))

(* rowScores.reduce((a, b) => a + b, 0) / rowScores.length *)
avgScore(scores) == Div(SumScores(scores, 1, Len(scores)), Num(Len(scores)))

sensitivityFactorDirect(s) == Div(Num(s), Num(20))

(* line 85 *)
sensitivityFactor(s) == Div(Num(101 - s), Num(20))

thresholdOf(scores, s) == Mul(avgScore(scores), Add(Num(1), sensitivityFactor(s)))

minDistOf(m, sf) == Div(Num(m), sf)

IsCandidateOrEqual(score, thr) == ~GT(thr, score)

(* line 95 *)
IsCandidate(score, thr) == GT(score, thr)

FarEnoughOrEqual(yy, last, md) == ~GT(md, Num(yy - last))

(* line 97 *)
FarEnough(yy, last, md) == GT(Num(yy - last), md)

CutCoordinateDivided(yy, sf) == Floor(Div(Num(yy), sf)).n

(* line 98 *)
CutCoordinate(yy, sf) == Floor(Mul(Num(yy), sf)).n

SkipAheadNone(sf) == 0

(* line 102 *)
SkipAhead(sf) == Floor(Div(Num(SkipRows), sf)).n

(* one iteration of the loop of lines 94-105, the y++ included *)
ScanBody(st, scores, thr, md, sf) ==
    IF IsCandidate(scores[st.y + 1], thr) /\ FarEnough(st.y, st.lastCutY, md)
    THEN [y |-> st.y + SkipAhead(sf) + 1,
          lastCutY |-> st.y,
          foundPoints |-> Append(st.foundPoints, CutCoordinate(st.y, sf)),
          acceptedYs |-> Append(st.acceptedYs, st.y)]
    ELSE [st EXCEPT !.y = st.y + 1]

(* the loop of lines 94-105 run for at most n more iterations; the loop    *)
(* ends when y reaches rowScores.length                                     *)
RECURSIVE ScanLoop(_, _, _, _, _, _)
ScanLoop(st, n, scores, thr, md, sf) ==
    IF n = 0 \/ st.y >= Len(scores) THEN st
    ELSE IF n = 1 THEN ScanBody(st, scores, thr, md, sf)
    ELSE CHOOSE r \in {ScanLoop(h, n - (n \div 2), scores, thr, md, sf) :
                         h \in {ScanLoop(st, n \div 2, scores, thr, md, sf)}} : TRUE

ScanStart == [y |-> 0, lastCutY |-> 0, foundPoints |-> <<>>, acceptedYs |-> <<>>]

(* the list detectSplitPoints returns once rowScores is computed, lines 81-107 *)
cutsFromScores(scores, sf, s, m) ==
    ScanLoop(ScanStart, Len(scores), scores, thresholdOf(scores, s), minDistOf(m, sf),
             sf).foundPoints

(* lines 25-45: the canvas is set up and the image drawn into it *)
DetectStart ==
    /\ pc = "start"
    /\ \E ctx \in BOOLEAN :
        IF ~ctx
        THEN /\ pc' = "done"
             /\ data' = data
        ELSE IF getImageDataThrows(Num(analyzeWidth), analyzeHeight)
        THEN /\ pc' = "threw"
             /\ data' = data
        ELSE /\ \E filter \in ResampleFilters :
                 data' = drawImage(img, analyzeWidth, analyzeHeight.n, filter)
             /\ pc' = "score"
    /\ UNCHANGED <<appVars, img, settings, rowScores, threshold, minDist, y, lastCutY,
                   foundPoints, acceptedYs, sliceVars>>

(* lines 47-73 *)
DetectScore ==
    /\ pc = "score"
    /\ rowScores' = computeRowScores(data, analyzeWidth, analyzeHeight.n)
    /\ pc' = "threshold"
    /\ UNCHANGED <<appVars, img, settings, data, threshold, minDist, y, lastCutY, foundPoints,
                   acceptedYs, sliceVars>>

(* lines 81-94 *)
DetectThreshold ==
    /\ pc = "threshold"
    /\ \E s \in Sensitivities : \E m \in MinSegmentHeights :
        /\ settings' = [sensitivity |-> s, fastMode |-> settings.fastMode,
                        minSegmentHeight |-> m]
        /\ threshold' = thresholdOf(rowScores, s)
        /\ minDist' = minDistOf(m, scaleFactor)
    /\ foundPoints' = <<>>
    /\ lastCutY' = 0
    /\ y' = 0
    /\ pc' = "scan"
    /\ UNCHANGED <<appVars, img, data, rowScores, acceptedYs, sliceVars>>

(* lines 94-105, one iteration *)
DetectScan ==
    /\ pc = "scan"
    /\ y < Len(rowScores)
    /\ \E st \in {ScanBody([y |-> y, lastCutY |-> lastCutY, foundPoints |-> foundPoints,
                            acceptedYs |-> acceptedYs],
                           rowScores, threshold, minDist, scaleFactor)} :
           /\ y' = st.y
           /\ lastCutY' = st.lastCutY
           /\ foundPoints' = st.foundPoints
           /\ acceptedYs' = st.acceptedYs
    /\ UNCHANGED <<appVars, img, settings, pc, data, rowScores, threshold, minDist, sliceVars>>

(* line 107 *)
DetectReturn ==
    /\ pc = "scan"
    /\ y >= Len(rowScores)
    /\ pc' = "done"
    /\ UNCHANGED <<appVars, img, settings, data, rowScores, threshold, minDist, y, lastCutY,
                   foundPoints, acceptedYs, sliceVars>>

---------------------------------------------------------------------------
(* Inputs of detectSplitPoints *)

FastWidths == {0, 150, 250, 1000}
Heights == (0..3) \cup {MaxHeight}
PaletteStarts == {0, 2}

(* at most two seams *)
SeamSets(h) == {{}} \cup {{a, b} : a, b \in 1..(h - 1)}

AppIdle ==
    /\ images = <<>>
    /\ tasks = {}

SliceIdle ==
    /\ splitPoints = <<>>
    /\ gap = 0
    /\ spc = "idle"
    /\ sortedPoints = <<>>
    /\ i = 0
    /\ currentY = 0
    /\ segments = <<>>
    /\ canvasFailed = FALSE

DetectInit ==
    /\ \/ \E h \in Heights : \E seams \in SeamSets(h) : \E first \in PaletteStarts :
          \E fast \in BOOLEAN :
          \E w \in (IF fast THEN FastWidths ELSE 0..MaxWidth) :
           /\ img = PanelImage(w, h, seams, first)
           /\ settings = [fastMode |-> fast]
       \/ /\ img = BandImage
          /\ settings = [fastMode |-> FALSE]
       \/ /\ img = WideImage
          /\ settings = [fastMode |-> TRUE]
    /\ pc = "start"
    /\ data = <<>>
    /\ rowScores = <<>>
    /\ threshold = NaN
    /\ minDist = NaN
    /\ y = 0
    /\ lastCutY = 0
    /\ foundPoints = <<>>
    /\ acceptedYs = <<>>
    /\ SliceIdle
    /\ AppIdle

DetectNext ==
    DetectStart \/ DetectScore \/ DetectThreshold \/ DetectScan \/ DetectReturn

SpecDetect == DetectInit /\ [][DetectNext]_vars

---------------------------------------------------------------------------
(* Properties of detectSplitPoints *)

Returned == pc = "done"

(* C1: the list detectSplitPoints returns is strictly ascending and every   *)
(* element c satisfies 0 <= c < image height.                               *)
C1_MonotonicCuts ==
    Returned =>
        \A k \in 1..Len(foundPoints) :
            /\ 0 <= foundPoints[k]
            /\ foundPoints[k] < img.height
            /\ k > 1 => foundPoints[k - 1] < foundPoints[k]

C1_Witness ==
    /\ Returned
    /\ Len(foundPoints) >= 2
    /\ settings.fastMode
    /\ img.width < FastWidth

(* C2: every accepted cut is more than minDist scan positions past the      *)
(* previously accepted cut, the first one more than minDist past 0.         *)
C2_MinimumSpacing ==
    \A k \in 1..Len(acceptedYs) :
        GT(Num(acceptedYs[k] - (IF k = 1 THEN 0 ELSE acceptedYs[k - 1])), minDist)

C2_Witness ==
    /\ Returned
    /\ Len(acceptedYs) >= 2
    /\ y > Len(rowScores)

(* C3: for the same image, fastMode and minSegmentHeight, a higher          *)
(* sensitivity never yields fewer cuts than a lower one.                    *)
CutCountAt(s) ==
    Len(cutsFromScores(rowScores, scaleFactor, s, settings.minSegmentHeight))

C3_SensitivityMonotone ==
    (Returned /\ "sensitivity" \in DOMAIN settings) =>
        /\ Len(foundPoints) = CutCountAt(settings.sensitivity)
        /\ \A s2 \in Sensitivities :
              /\ s2 > settings.sensitivity => CutCountAt(s2) >= Len(foundPoints)
              /\ s2 < settings.sensitivity => CutCountAt(s2) <= Len(foundPoints)

C3_Witness ==
    /\ Returned
    /\ "sensitivity" \in DOMAIN settings
    /\ Len(foundPoints) >= 1
    /\ \E s2 \in Sensitivities :
          s2 > settings.sensitivity /\ CutCountAt(s2) > Len(foundPoints)

(* C8: on an image whose rows are all identical and that has at least two   *)
(* analysis rows, detectSplitPoints returns an empty list, whatever the     *)
(* sensitivity, minSegmentHeight and fastMode.                              *)
HasRowScores == IsFinite(analyzeHeight) /\ analyzeHeight.n >= 2

C8_UniformImageNoCuts ==
    (IsUniform(img) /\ HasRowScores) =>
        /\ pc # "threw"
        /\ foundPoints = <<>>

C8_Witness ==
    /\ Returned
    /\ IsUniform(img)
    /\ Len(rowScores) >= 1
    /\ threshold = Num(0)
    /\ settings.fastMode

(* C9: a cut triggered by the score of analysis row r is recorded at        *)
(* floor(r * scaleFactor).                                                  *)
C9_CutAtScoredRow ==
    \A k \in 1..Len(foundPoints) :
        foundPoints[k] = Floor(Mul(Num(ScoredRow(acceptedYs[k])), scaleFactor)).n

(* C10: detectSplitPoints returns an empty list, without raising an error,  *)
(* when the analysis height is below 2 or the width is 0.                   *)
Degenerate ==
    \/ img.width = 0
    \/ img.height < 2
    \/ IsFinite(analyzeHeight) /\ analyzeHeight.n < 2

C10_DegenerateReturnsEmpty ==
    Degenerate =>
        /\ pc # "threw"
        /\ Returned => foundPoints = <<>>

(* scan position p has a score above the threshold *)
AboveThreshold(p) == IsCandidate(rowScores[p + 1], threshold)

(* the scan positions a .. b are consecutive above-threshold rows *)
RunFrom(a, b) == \A p \in a..b : AboveThreshold(p)

(* scan position a is the first row of a run of above-threshold rows *)
FirstOfRun(a) == a = 0 \/ ~AboveThreshold(a - 1)

(* after a cut is accepted at scan position y, none of the next             *)
(* floor(10 / scaleFactor) scan positions is accepted                       *)
SkipWindowRespected ==
    \A k \in 2..Len(acceptedYs) :
        acceptedYs[k] - acceptedYs[k - 1] > Floor(Div(Num(10), scaleFactor)).n

(* a run of above-threshold rows whose first row is accepted holds no       *)
(* second accepted row, unless the run is longer than maxRun rows           *)
OneCutPerRun(maxRun) ==
    \A j, k \in 1..Len(acceptedYs) :
        (j < k /\ FirstOfRun(acceptedYs[j]) /\ RunFrom(acceptedYs[j], acceptedYs[k]))
            => acceptedYs[k] - acceptedYs[j] + 1 > maxRun

(* C13 as stated: no scan position of the skip window is accepted, and a    *)
(* run of consecutive above-threshold rows whose first row is accepted      *)
(* yields exactly one cut, however long the run.                            *)
C13_OneCutPerSeamAsStated ==
    SkipWindowRespected /\ OneCutPerRun(Len(rowScores))

(* C13: no scan position of the skip window is accepted, whatever the       *)
(* scores and minSegmentHeight; a run of at most floor(10 / scaleFactor) + 1 *)
(* consecutive above-threshold rows whose first row is accepted yields      *)
(* exactly one cut.                                                         *)
C13_OneCutPerSeam ==
    SkipWindowRespected /\ OneCutPerRun(Floor(Div(Num(10), scaleFactor)).n + 1)

C13_Witness ==
    /\ Returned
    /\ Floor(Div(Num(10), scaleFactor)).n >= 1
    /\ \E j \in 1..Len(acceptedYs) :
          /\ FirstOfRun(acceptedYs[j])
          /\ acceptedYs[j] + 1 < Len(rowScores)
          /\ AboveThreshold(acceptedYs[j] + 1)
          /\ \A k \in 1..Len(acceptedYs) :
                k # j => ~RunFrom(acceptedYs[j], acceptedYs[k])

(* the number of columns x = 0, xStep, 2 * xStep, ... below aw *)
SampledColumns(aw) == (aw + xStep - 1) \div xStep

(* C12: rowScores[yy] is the sum of |dR| + |dG| + |dB| over the sampled     *)
(* columns divided by the number of columns sampled, for even and odd       *)
(* analysis widths; a row whose every sampled pixel differs by D from the   *)
(* row above scores exactly D.                                              *)
C12_RowScoreNormalised ==
    \A k \in 1..Len(rowScores) :
        /\ rowScores[k] = Div(Num(rowDiffSum(data, analyzeWidth, k)),
                              Num(SampledColumns(analyzeWidth)))
        /\ (\A c \in 0..(SampledColumns(analyzeWidth) - 1) :
               pixelDiff(data, analyzeWidth, k, c * xStep)
                   = pixelDiff(data, analyzeWidth, k, 0))
           => rowScores[k] = Num(pixelDiff(data, analyzeWidth, k, 0))

---------------------------------------------------------------------------
(* sliceImage *)

(* [...splitPoints].sort((a, b) => a - b) *)
RECURSIVE Insert(_, _)
Insert(c, sorted) ==
    IF sorted = <<>> THEN <<c>>
    ELSE IF c <= Head(sorted) THEN <<c>> \o sorted
    ELSE <<Head(sorted)>> \o Insert(c, Tail(sorted))

SortPointsOmitted(points) == points

RECURSIVE SortPoints(_)
SortPoints(points) ==
    IF points = <<>> THEN <<>> ELSE Insert(Head(points), SortPoints(Tail(points)))

HalfGapFloored == Floor(Div(Num(gap), Num(2)))

(* line 130 *)
halfGap == Div(Num(gap), Num(2))

EndYFullGap(isLast, cutY, hg, height) ==
    IF isLast THEN height ELSE Floor(Sub(Num(cutY), Mul(hg, Num(2)))).n

EndYTrimLast(isLast, cutY, hg, height) == Floor(Sub(Num(cutY), hg)).n

(* line 142 *)
EndY(isLast, cutY, hg, height) ==
    IF isLast THEN height ELSE Floor(Sub(Num(cutY), hg)).n

(* line 173 *)
NextCurrentY(cutY, hg) == Floor(Add(Num(cutY), hg)).n

(* lines 119-131 *)
SliceStart ==
    /\ spc = "start"
    /\ \E ctx \in BOOLEAN :
        IF ~ctx
        THEN /\ spc' = "done"
             /\ canvasFailed' = TRUE
             /\ sortedPoints' = sortedPoints
        ELSE /\ spc' = "loop"
             /\ canvasFailed' = canvasFailed
             /\ sortedPoints' = SortPoints(splitPoints)
    /\ segments' = <<>>
    /\ currentY' = 0
    /\ i' = 0
    /\ UNCHANGED <<appVars, img, settings, detectVars, splitPoints, gap>>

(* lines 133-175, one iteration; toBlob yields a blob or null *)
SliceStep ==
    /\ spc = "loop"
    /\ i <= Len(sortedPoints)
    /\ LET isLast == i = Len(sortedPoints)
           cutY == IF isLast THEN img.height ELSE sortedPoints[i + 1]
           endY == EndY(isLast, cutY, halfGap, img.height)
           h == endY - currentY
       IN  /\ IF h > 0
              THEN \E blob \in BOOLEAN :
                      IF blob
                      THEN /\ segments' = Append(segments,
                                  [height |-> h, selected |-> TRUE,
                                   blob |-> [top |-> currentY, bottom |-> endY]])
                           /\ canvasFailed' = canvasFailed
                      ELSE /\ segments' = segments
                           /\ canvasFailed' = TRUE
              ELSE /\ segments' = segments
                   /\ canvasFailed' = canvasFailed
           /\ currentY' = IF isLast THEN currentY ELSE NextCurrentY(cutY, halfGap)
    /\ i' = i + 1
    /\ UNCHANGED <<appVars, img, settings, detectVars, splitPoints, gap, spc, sortedPoints>>

(* line 177 *)
SliceReturn ==
    /\ spc = "loop"
    /\ i > Len(sortedPoints)
    /\ spc' = "done"
    /\ UNCHANGED <<appVars, img, settings, detectVars, splitPoints, gap, sortedPoints, i,
                   currentY, segments, canvasFailed>>

---------------------------------------------------------------------------
(* Inputs of sliceImage *)

SliceHeights == {0, 1, MaxSliceHeight}

RECURSIVE CutLists(_, _)
CutLists(values, n) ==
    IF n = 0 THEN {<<>>}
    ELSE LET shorter == CutLists(values, n - 1)
         IN  shorter \cup {Append(l, c) : l \in {q \in shorter : Len(q) = n - 1},
                                          c \in values}

DetectIdle ==
    /\ settings = [fastMode |-> FALSE]
    /\ pc = "idle"
    /\ data = <<>>
    /\ rowScores = <<>>
    /\ threshold = NaN
    /\ minDist = NaN
    /\ y = 0
    /\ lastCutY = 0
    /\ foundPoints = <<>>
    /\ acceptedYs = <<>>

SliceInit ==
    /\ \/ \E h \in SliceHeights :
          /\ img = PanelImage(1, h, {}, 0)
          /\ splitPoints \in CutLists((-1)..(h + 1), MaxCuts)
          /\ gap \in 0..MaxGap
       \/ /\ img = PanelImage(100, 200, {}, 0)
          /\ splitPoints = <<50, 150>>
          /\ gap = 10
    /\ DetectIdle
    /\ spc = "start"
    /\ sortedPoints = <<>>
    /\ i = 0
    /\ currentY = 0
    /\ segments = <<>>
    /\ canvasFailed = FALSE
    /\ AppIdle

SliceNext == SliceStart \/ SliceStep \/ SliceReturn

SpecSlice == SliceInit /\ [][SliceNext]_vars

---------------------------------------------------------------------------
(* Properties of sliceImage *)

Sliced == spc = "done"

SegmentRows(seg) == seg.blob.top .. (seg.blob.bottom - 1)

GapBand(c) == Floor(Sub(Num(c), halfGap)).n .. (Floor(Add(Num(c), halfGap)).n - 1)

InSomeSegment(r) == \E k \in 1..Len(segments) : r \in SegmentRows(segments[k])

InSomeGapBand(r) == \E k \in 1..Len(splitPoints) : r \in GapBand(splitPoints[k])

Coverage ==
    /\ \A r \in 0..(img.height - 1) : InSomeSegment(r) \/ InSomeGapBand(r)
    /\ \A j, k \in 1..Len(segments) :
          j # k => SegmentRows(segments[j]) \cap SegmentRows(segments[k]) = {}

RECURSIVE SumHeights(_)
SumHeights(segs) == IF segs = <<>> THEN 0 ELSE Head(segs).height + SumHeights(Tail(segs))

CutsInRange == \A k \in 1..Len(splitPoints) : 0 <= splitPoints[k] /\ splitPoints[k] <= img.height

ExpectedHeights(cuts, height) ==
    [k \in 1..(Len(cuts) + 1) |->
        (IF k = Len(cuts) + 1 THEN height ELSE Floor(Sub(Num(cuts[k]), halfGap)).n)
        - (IF k = 1 THEN 0 ELSE Floor(Add(Num(cuts[k - 1]), halfGap)).n)]

StrictlyAscending(cuts) == \A k \in 2..Len(cuts) : cuts[k - 1] < cuts[k]

C6Case ==
    /\ Sliced
    /\ splitPoints # <<>>
    /\ StrictlyAscending(splitPoints)
    /\ \A k \in 1..(Len(splitPoints) + 1) : ExpectedHeights(splitPoints, img.height)[k] > 0

SegmentHeights == [k \in 1..Len(segments) |-> segments[k].height]

C6General ==
    C6Case =>
        /\ SegmentHeights = ExpectedHeights(splitPoints, img.height)
        /\ segments[Len(segments)].blob.bottom = img.height

C6Scenario(heights) ==
    (Sliced /\ splitPoints = <<50, 150>> /\ gap = 10 /\ img.height = 200) =>
        SegmentHeights = heights

C7_SegmentsInsideImage ==
    \A k \in 1..Len(segments) :
        /\ segments[k].height > 0
        /\ segments[k].blob.top >= 0
        /\ segments[k].blob.bottom <= img.height

(* the cut splitPoints[k] is an integer c with gap/2 <= c <= height - gap/2 *)
(* that is more than gap away from every other cut                          *)
IsolatedCut(k) ==
    /\ 2 * splitPoints[k] >= gap
    /\ 2 * splitPoints[k] <= 2 * img.height - gap
    /\ \A j \in 1..Len(splitPoints) :
          j # k => Abs(splitPoints[j] - splitPoints[k]) > gap

(* the rows sliceImage leaves out around the cut c: from the endY of the    *)
(* segment that ends at c to the currentY the next segment starts at        *)
BandTop(c) == EndY(FALSE, c, halfGap, img.height)

BandBottom(c) == NextCurrentY(c, halfGap)

(* C14: around an isolated in-range cut c sliceImage discards exactly gap   *)
(* rows, for odd and even gaps: the band between the segment ending at c    *)
(* and the segment starting after c has gap rows, its two sides about c     *)
(* differ by at most one row, and when every segment is encoded the rows    *)
(* next to the band belong to segments and the rows of the band to none.    *)
C14_GapBandExact ==
    Sliced =>
        \A k \in 1..Len(splitPoints) :
            IsolatedCut(k) =>
                LET c == splitPoints[k]
                    top == BandTop(c)
                    bottom == BandBottom(c)
                IN  /\ bottom - top = gap
                    /\ Abs((c - top) - (bottom - c)) <= 1
                    /\ ~canvasFailed =>
                          /\ \A r \in top..(bottom - 1) : ~InSomeSegment(r)
                          /\ top - 1 >= 0 => InSomeSegment(top - 1)
                          /\ bottom < img.height => InSomeSegment(bottom)

C14_Witness ==
    /\ Sliced
    /\ ~canvasFailed
    /\ gap % 2 = 1
    /\ gap > 1
    /\ Len(splitPoints) = 2
    /\ Len(segments) >= 2
    /\ \E k \in 1..Len(splitPoints) :
          /\ IsolatedCut(k)
          /\ BandTop(splitPoints[k]) > 0
          /\ BandBottom(splitPoints[k]) < img.height

---------------------------------------------------------------------------
(* Detection followed by slicing: runDetection stores the list             *)
(* detectSplitPoints returned as the image's splitPoints, and               *)
(* handleConfirmSplits passes them to sliceImage without a gap.             *)

SliceDetected ==
    /\ pc = "done"
    /\ spc = "idle"
    /\ splitPoints' = foundPoints
    /\ gap' = 0
    /\ spc' = "start"
    /\ UNCHANGED <<appVars, img, settings, detectVars, sortedPoints, i, currentY, segments,
                   canvasFailed>>

PipelineNext == DetectNext \/ SliceDetected \/ SliceNext

SpecPipeline == DetectInit /\ [][PipelineNext]_vars

(* C11: every segment obtained by slicing an image at the (one or more)     *)
(* cuts detectSplitPoints returned, with gap 0, has height >=               *)
(* minSegmentHeight, the first and the last segment included.               *)
C11_MinSegmentHeight ==
    (spc # "idle" /\ foundPoints # <<>>) =>
        \A k \in 1..Len(segments) : segments[k].height >= settings.minSegmentHeight

---------------------------------------------------------------------------
(* App: the images state and the handlers of the App component.  A handler  *)
(* called from the page uses the images of the latest render; an            *)
(* asynchronous handler keeps the images it captured when it was called.    *)

MaxTasks == 1
MaxPoints == 2
AppHeight == 13

(* the result of detectSplitPoints(imgEl, settings): the list returned, or  *)
(* threw when getImageData raises                                           *)
detectSplitPoints(ctx, filter) ==
    IF ~ctx THEN [threw |-> FALSE, points |-> <<>>]
    ELSE IF getImageDataThrows(Num(analyzeWidth), analyzeHeight)
    THEN [threw |-> TRUE, points |-> <<>>]
    ELSE [threw |-> FALSE,
          points |-> cutsFromScores(
                        computeRowScores(
                            drawImage(img, analyzeWidth, analyzeHeight.n, filter),
                            analyzeWidth, analyzeHeight.n),
                        scaleFactor, settings.sensitivity, settings.minSegmentHeight)]

(* the loop of sliceImage, lines 133-175, from iteration k on; encoded      *)
(* tells whether toBlob yields a blob                                       *)
RECURSIVE SliceLoop(_, _, _, _, _, _)
SliceLoop(sorted, k, cur, height, hg, encoded) ==
    IF k > Len(sorted) THEN <<>>
    ELSE LET isLast == k = Len(sorted)
             cutY == IF isLast THEN height ELSE sorted[k + 1]
             endY == EndY(isLast, cutY, hg, height)
             h == endY - cur
             rest == IF isLast THEN <<>>
                     ELSE SliceLoop(sorted, k + 1, NextCurrentY(cutY, hg), height, hg,
                                    encoded)
         IN  IF h > 0 /\ encoded
             THEN <<[height |-> h, selected |-> TRUE,
                     blob |-> [top |-> cur, bottom |-> endY]]>> \o rest
             ELSE rest

(* the result of sliceImage(imgEl, points), the gap left at its default 0 *)
sliceImage(points, height, ctx, encoded) ==
    IF ~ctx THEN <<>>
    ELSE SliceLoop(SortPoints(points), 0, 0, height, Div(Num(0), Num(2)), encoded)

(* Math.abs and Math.round *)
AbsNum(a) == IF IsFinite(a) THEN [n |-> Abs(a.n), d |-> a.d] ELSE a

Round(a) == Floor(Add(a, Div(Num(1), Num(2))))

(* line 38 of Workspace.tsx *)
relativeY(offset, zoom) == Div(Num(offset), zoom)

(* line 41 *)
clickThreshold(zoom) == Div(Num(10), zoom)

(* image.splitPoints.findIndex(p => Math.abs(p - relativeY) < clickThreshold), *)
(* as a position of the sequence, 0 when there is none                      *)
existingIndex(points, rel, zoom) ==
    LET near == {k \in 1..Len(points) :
                    GT(clickThreshold(zoom), AbsNum(Sub(Num(points[k]), rel)))}
    IN  IF near = {} THEN 0 ELSE CHOOSE k \in near : \A j \in near : k <= j

(* newPoints.splice(existingIndex, 1) *)
Splice(points, k) ==
    [j \in 1..(Len(points) - 1) |-> IF j < k THEN points[j] ELSE points[j + 1]]

newPointsUnsorted(points, rel, zoom) ==
    IF existingIndex(points, rel, zoom) # 0
    THEN Splice(points, existingIndex(points, rel, zoom))
    ELSE Append(points, Round(rel).n)

(* lines 44-50: newPoints of handleImageClick *)
newPoints(points, rel, zoom) ==
    IF existingIndex(points, rel, zoom) # 0
    THEN Splice(points, existingIndex(points, rel, zoom))
    ELSE SortPoints(Append(points, Round(rel).n))

(* the zoom of Workspace lies in 0.1 .. 3 *)
Zooms == {Div(Num(1), Num(10)), Num(1), Num(3)}

(* e.clientY - rect.top of a click on the image, shown rect.height =        *)
(* height * zoom high: the top edge, the middle, two thirds down and the    *)
(* bottom edge, in whole pixels                                             *)
ClickFractions == {Num(0), Div(Num(1), Num(2)), Div(Num(2), Num(3)), Num(1)}

ClickOffsets(height, zoom) ==
    {Floor(Mul(Mul(Num(height), zoom), f)).n : f \in ClickFractions}

(* prev.map(img => img.id === id ? { ...img, ...updates } : img) *)
MapImage(id, updates) ==
    [k \in 1..Len(images) |->
        IF k = id
        THEN [f \in DOMAIN images[k] |->
                 IF f \in DOMAIN updates THEN updates[f] ELSE images[k][f]]
        ELSE images[k]]

Task(kind, id, at, found, target, clear) ==
    [kind |-> kind, id |-> id, pc |-> at, found |-> found, target |-> target,
     clear |-> clear]

(* handleFiles, lines 26-59, for the one file dropped: the image is added   *)
(* and setTimeout schedules runDetection of this render, whose images do    *)
(* not hold the new image                                                   *)
HandleFiles ==
    /\ images = <<>>
    /\ Cardinality(tasks) < MaxTasks
    /\ images' = Append(images,
                        [width |-> img.width, height |-> img.height,
                         splitPoints |-> <<>>, segments |-> <<>>, status |-> "idle"])
    /\ tasks' = tasks \cup
          {Task("runDetection", Len(images) + 1, "timer",
                \E k \in 1..Len(images) : k = Len(images) + 1, <<>>, FALSE)}
    /\ UNCHANGED <<img, settings, detectVars, sliceVars>>

(* the timer of line 55 fires: runDetection runs up to its first await,     *)
(* line 62                                                                  *)
RunDetectionStart(t) ==
    /\ t.kind = "runDetection"
    /\ t.pc = "timer"
    /\ images' = MapImage(t.id, [status |-> "analyzing"])
    /\ tasks' = (tasks \ {t}) \cup {[t EXCEPT !.pc = "await"]}
    /\ UNCHANGED <<img, settings, detectVars, sliceVars>>

(* the Re-Run button of SettingsPanel, shown while the image has no         *)
(* segments: runDetection(activeImage.id, settings) up to its first await   *)
ReRun(id) ==
    /\ images[id].segments = <<>>
    /\ Cardinality(tasks) < MaxTasks
    /\ images' = MapImage(id, [status |-> "analyzing"])
    /\ tasks' = tasks \cup
          {Task("runDetection", id, "await", \E k \in 1..Len(images) : k = id, <<>>,
                FALSE)}
    /\ UNCHANGED <<img, settings, detectVars, sliceVars>>

(* runDetection after its awaits, lines 67-96 *)
RunDetectionResume(t) ==
    /\ t.kind = "runDetection"
    /\ t.pc = "await"
    /\ IF ~t.found
       THEN images' = images
       ELSE \E ctx \in BOOLEAN : \E filter \in ResampleFilters :
               LET r == detectSplitPoints(ctx, filter)
               IN  IF r.threw
                   THEN images' = MapImage(t.id, [status |-> "error"])
                   ELSE images' = MapImage(t.id, [splitPoints |-> r.points,
                                                  status |-> "done",
                                                  segments |-> <<>>])
    /\ tasks' = tasks \ {t}
    /\ UNCHANGED <<img, settings, detectVars, sliceVars>>

(* handleUpdateSplitPoints, lines 99-101 *)
handleUpdateSplitPoints(id, points) ==
    images' = MapImage(id, [splitPoints |-> points, segments |-> <<>>])

(* handleImageClick, lines 35-52 of Workspace.tsx *)
HandleImageClick(id) ==
    /\ \E zoom \in Zooms : \E offset \in ClickOffsets(images[id].height, zoom) :
          LET points == newPoints(images[id].splitPoints, relativeY(offset, zoom), zoom)
          IN  /\ Len(points) <= MaxPoints
              /\ handleUpdateSplitPoints(id, points)
    /\ UNCHANGED <<img, settings, detectVars, sliceVars, tasks>>

(* handleConfirmSplits up to its first await, lines 104-108: called by the  *)
(* Slice It button, disabled while the image is analyzing, or by the close  *)
(* button of ResultPanel, shown while the image has segments                *)
HandleConfirmSplits(id, clear) ==
    /\ IF clear THEN images[id].segments # <<>> ELSE images[id].status # "analyzing"
    /\ Cardinality(tasks) < MaxTasks
    /\ images' = MapImage(id, [status |-> "analyzing"])
    /\ tasks' = tasks \cup
          {Task("handleConfirmSplits", id, "await", TRUE, images[id].splitPoints, clear)}
    /\ UNCHANGED <<img, settings, detectVars, sliceVars>>

(* handleConfirmSplits after its awaits, lines 110-118, and the then of     *)
(* onClose, line 233                                                        *)
HandleConfirmSplitsResume(t) ==
    /\ t.kind = "handleConfirmSplits"
    /\ \E ctx \in BOOLEAN : \E encoded \in BOOLEAN :
          images' = MapImage(t.id,
                       [segments |->
                            IF t.clear THEN <<>>
                            ELSE sliceImage(t.target, images[t.id].height, ctx, encoded),
                        status |-> "done"])
    /\ tasks' = tasks \ {t}
    /\ UNCHANGED <<img, settings, detectVars, sliceVars>>

TaskStep ==
    \E t \in tasks :
        RunDetectionStart(t) \/ RunDetectionResume(t) \/ HandleConfirmSplitsResume(t)

UserStep ==
    \/ HandleFiles
    \/ \E id \in 1..Len(images) :
          \/ ReRun(id)
          \/ HandleImageClick(id)
          \/ \E clear \in BOOLEAN : HandleConfirmSplits(id, clear)

AppInit ==
    /\ \/ /\ img = PanelImage(1, AppHeight, {AppHeight - 1}, 0)
          /\ settings = [sensitivity |-> 50, fastMode |-> FALSE, minSegmentHeight |-> 10]
       \/ /\ img = PanelImage(1000, 3, {}, 0)
          /\ settings = [sensitivity |-> 50, fastMode |-> TRUE, minSegmentHeight |-> 10]
    /\ pc = "idle"
    /\ data = <<>>
    /\ rowScores = <<>>
    /\ threshold = NaN
    /\ minDist = NaN
    /\ y = 0
    /\ lastCutY = 0
    /\ foundPoints = <<>>
    /\ acceptedYs = <<>>
    /\ SliceIdle
    /\ AppIdle

AppNext == UserStep \/ TaskStep

SpecApp == AppInit /\ [][AppNext]_vars

(* timers and promises pending in the event loop are eventually run *)
SpecAppFair == SpecApp /\ WF_vars(TaskStep)

---------------------------------------------------------------------------
(* Properties of App *)

(* C15: an image whose status is set to 'analyzing' eventually has its      *)
(* status set to 'done' or 'error'.                                         *)
C15_AnalyzingEnds ==
    \A id \in {1} :
        (id <= Len(images) /\ images[id].status = "analyzing")
            ~> (id <= Len(images) /\ images[id].status \in {"done", "error"})

(* C16: in every state of App a non-empty segments list of an image is the  *)
(* result of slicing that image at its current splitPoints.                 *)
C16_SegmentsMatchSplitPoints ==
    \A id \in 1..Len(images) :
        images[id].segments # <<>> =>
            \E ctx \in BOOLEAN : \E encoded \in BOOLEAN :
                images[id].segments
                    = sliceImage(images[id].splitPoints, images[id].height, ctx, encoded)

(* C17: after any sequence of detection runs and clicks an image's          *)
(* splitPoints are strictly ascending, without duplicates, and every value  *)
(* lies within [0, image height].                                           *)
C17_SplitPointsSortedInRange ==
    \A id \in 1..Len(images) :
        /\ StrictlyAscending(images[id].splitPoints)
        /\ \A k \in 1..Len(images[id].splitPoints) :
              /\ 0 <= images[id].splitPoints[k]
              /\ images[id].splitPoints[k] <= images[id].height

C17_Witness ==
    \E id \in 1..Len(images) :
        /\ images[id].status = "done"
        /\ Len(images[id].splitPoints) = 2
        /\ \E filter \in ResampleFilters :
              <<images[id].splitPoints[2]>> = detectSplitPoints(TRUE, filter).points

=============================================================================
